---- MODULE Spec2Model ----
(***************************************************************************)
(* Omvyx Voice: the POST /retell-webhook handler of src/main.py.           *)
(*                                                                         *)
(* Every inbound HTTP request runs retell_webhook as its own asyncio task. *)
(* The handler has one suspension point that matters, the await on         *)
(* graph.ainvoke (line 101): everything before it is one step (Receive),   *)
(* everything after it is one step (EngineReturn), and an exception raised *)
(* by the engine leaves the handler unhandled (EngineFail).  The engine    *)
(* (the compiled LangGraph workflow) is an opaque collaborator: what it    *)
(* returns, and whether it raises, is a nondeterministic choice.           *)
(*                                                                         *)
(* JSON objects and Python dicts are functions whose DOMAIN is the set of  *)
(* keys that are present, so that dict.get(key, default) is modelled by    *)
(* what it does on a present and on an absent key.                         *)
(***************************************************************************)
EXTENDS Integers, Sequences, FiniteSets, TLC

VARIABLES
    pc,        \* per request: position of its handler task
    body,      \* per request: the parsed JSON payload (line 72)
    calls,     \* per request: the graph.ainvoke invocations it made (line 101)
    engine,    \* per request: state of its engine invocation
    result,    \* per request: the state dict the engine returned (line 101)
    greeted,   \* per request: whether the branch of lines 90-92 was taken
    response   \* per request: the JSONResponse objects it returned

vars == <<pc, body, calls, engine, result, greeted, response>>

\* ------------------------------------------------------------------ bounds

NumRequests == 2
MaxTranscript == 2
MaxMessages == 2

Requests == 1..NumRequests

\* ------------------------------------------------------- dicts and messages

EmptyDict == [k \in {} |-> ""]

\* dict.get(key, default)
Get(d, key, default) == IF key \in DOMAIN d THEN d[key] ELSE default

\* dict.get(key): Python's None, which equals no string
None == "<None>"

\* graph.workflow.SYSTEM_PROMPT: a fixed message whose text the handler never reads
SYSTEM_PROMPT == [type |-> "system", content |-> "<system prompt>"]

HumanMessage(content) == [type |-> "human", content |-> content]

AIMessage(content) == [type |-> "ai", content |-> content]

\* ------------------------------------------------------------ the handler

\* Variant: the default of call_id is the empty string
CallIdEmptyDefault(b) == Get(b, "call_id", "")

\* call_id: str = body.get("call_id", "unknown")
CallId(b) == Get(b, "call_id", "unknown")

\* event: str = body.get("event", "")
Event(b) == Get(b, "event", "")

\* Variant: only call_ended short-circuits
IsTerminalEndedOnly(event) == event = "call_ended"

\* if event in ("call_ended", "call_analyzed")
IsTerminal(event) == event \in {"call_ended", "call_analyzed"}

\* transcript: list[dict] = body.get("transcript", [])
Transcript(b) == Get(b, "transcript", <<>>)

\* for turn in reversed(transcript): if turn.get("role") == "user":
\*     user_text = turn.get("content", ""); break
\* with user_text = "" when the loop ends without a break.
RECURSIVE ScanUser(_, _)
ScanUser(transcript, i) ==
    IF i = 0 THEN ""
    ELSE IF Get(transcript[i], "role", None) = "user"
         THEN Get(transcript[i], "content", "")
         ELSE ScanUser(transcript, i - 1)

LastUserText(b) == ScanUser(Transcript(b), Len(Transcript(b)))

\* if not user_text: the greeting branch is taken
NeedsGreeting(b) == LastUserText(b) = ""

\* Variant: call_started always greets
UserTextGreetOnStart(b) ==
    IF Event(b) = "call_started" \/ NeedsGreeting(b) THEN "Hola" ELSE LastUserText(b)

\* user_text as passed to the engine
UserText(b) == IF NeedsGreeting(b) THEN "Hola" ELSE LastUserText(b)

\* Variant: every request uses one fixed thread
ConfigFixedThread(b) == [configurable |-> [thread_id |-> "unknown"]]

\* config = {"configurable": {"thread_id": call_id}}
Config(b) == [configurable |-> [thread_id |-> CallId(b)]]

\* input_state = {"messages": [SYSTEM_PROMPT, HumanMessage(content=user_text)],
\*                "call_id": call_id}
InputState(b) ==
    [messages |-> <<SYSTEM_PROMPT, HumanMessage(UserText(b))>>,
     call_id |-> CallId(b)]

\* one graph.ainvoke(input_state, config=config)
Invocation(b) == [input_state |-> InputState(b), config |-> Config(b)]

\* for msg in reversed(result.get("messages", [])):
\*     if hasattr(msg, "content") and msg.type == "ai": agent_reply = msg.content; break
\* Every message of the engine is a BaseMessage, which has a content attribute.
RECURSIVE ScanAi(_, _)
ScanAi(messages, i) ==
    IF i = 0 THEN ""
    ELSE IF messages[i].type = "ai"
         THEN messages[i].content
         ELSE ScanAi(messages, i - 1)

\* Variant: the scan runs forward and stops at the first "ai" message
AgentReplyFirstAi(res) ==
    LET ms == Get(res, "messages", <<>>)
        ai == {i \in DOMAIN ms : ms[i].type = "ai"}
    IN  IF ai = {} THEN "" ELSE ms[CHOOSE i \in ai : \A j \in ai : i <= j].content

AgentReply(res) == ScanAi(Get(res, "messages", <<>>), Len(Get(res, "messages", <<>>)))

\* JSONResponse({"response_id": call_id, "content": ""})
TerminalResponse(call_id) == [response_id |-> call_id, content |-> ""]

\* JSONResponse({"response_id": call_id, "content": agent_reply,
\*               "content_complete": True, "end_call": False})
ActiveResponse(call_id, agent_reply) ==
    [response_id |-> call_id, content |-> agent_reply,
     content_complete |-> TRUE, end_call |-> FALSE]

\* Variant: call_id is a module-level name that a request awaiting the engine
\* has overwritten
SharedCallId(r) ==
    LET others == {q \in Requests : q # r /\ pc[q] = "awaiting"}
    IN  IF others = {} THEN CallId(body[r]) ELSE CallId(body[CHOOSE q \in others : TRUE])

\* The local variable call_id of request r's task, read again after the await
LocalCallId(r) == CallId(body[r])

\* ----------------------------------------------------------------- inputs

Optional(key, values) == {EmptyDict} \cup {key :> v : v \in values}

SeqsUpTo(S, n) == UNION {[1..k -> S] : k \in 0..n}

Turns ==
    {[role |-> "user", content |-> c] : c \in {"", "hi", "bye"}}
    \cup {[role |-> "agent", content |-> "hey"], [role |-> "user"], [content |-> "hi"]}

Bodies ==
    {c @@ e @@ t :
        c \in Optional("call_id", {"abc", "xyz"}),
        e \in Optional("event", {"", "call_started", "call_ended", "call_analyzed"}),
        t \in Optional("transcript", SeqsUpTo(Turns, MaxTranscript))}

Messages == {AIMessage(""), AIMessage("r1"), AIMessage("r2"), HumanMessage("hi")}

Results == Optional("messages", SeqsUpTo(Messages, MaxMessages))

\* The payloads and engine results of the concurrent specification
ConcBodies ==
    {c @@ e @@ t :
        c \in Optional("call_id", {"abc"}),
        e \in Optional("event", {"", "call_started", "call_ended"}),
        t \in Optional("transcript", {<<[role |-> "user", content |-> "hi"]>>})}

ConcResults ==
    {[messages |-> <<HumanMessage("hi"), AIMessage("r1")>>],
     [messages |-> <<HumanMessage("hi")>>],
     [messages |-> <<HumanMessage("hi"), AIMessage("")>>]}

\* ------------------------------------------------------------------ state

Init ==
    /\ pc = [r \in Requests |-> "idle"]
    /\ body = [r \in Requests |-> EmptyDict]
    /\ calls = [r \in Requests |-> <<>>]
    /\ engine = [r \in Requests |-> "none"]
    /\ result = [r \in Requests |-> EmptyDict]
    /\ greeted = [r \in Requests |-> FALSE]
    /\ response = [r \in Requests |-> {}]

\* Lines 72-101: the request arrives and runs up to its return (terminal event)
\* or up to the await on graph.ainvoke.
Receive(r, b) ==
    /\ pc[r] = "idle"
    /\ body' = [body EXCEPT ![r] = b]
    /\ \/ /\ IsTerminal(Event(b))
          /\ response' = [response EXCEPT ![r] = {TerminalResponse(CallId(b))}]
          /\ pc' = [pc EXCEPT ![r] = "responded"]
          /\ UNCHANGED <<calls, engine, greeted>>
       \/ /\ ~IsTerminal(Event(b))
          /\ greeted' = [greeted EXCEPT ![r] = NeedsGreeting(b)]
          /\ calls' = [calls EXCEPT ![r] = Append(@, Invocation(b))]
          /\ engine' = [engine EXCEPT ![r] = "pending"]
          /\ pc' = [pc EXCEPT ![r] = "awaiting"]
          /\ UNCHANGED response
    /\ UNCHANGED result

\* Lines 101-118: graph.ainvoke returns and the handler builds its reply.
EngineReturn(r, res) ==
    /\ pc[r] = "awaiting"
    /\ engine[r] = "pending"
    /\ engine' = [engine EXCEPT ![r] = "returned"]
    /\ result' = [result EXCEPT ![r] = res]
    /\ response' = [response EXCEPT ![r] = {ActiveResponse(LocalCallId(r), AgentReply(res))}]
    /\ pc' = [pc EXCEPT ![r] = "responded"]
    /\ UNCHANGED <<body, calls, greeted>>

\* Variant: the exception is caught and an empty reply is returned
EngineFailFallback(r) ==
    /\ pc[r] = "awaiting"
    /\ engine[r] = "pending"
    /\ engine' = [engine EXCEPT ![r] = "raised"]
    /\ response' = [response EXCEPT ![r] = {ActiveResponse(LocalCallId(r), "")}]
    /\ pc' = [pc EXCEPT ![r] = "responded"]
    /\ UNCHANGED <<body, calls, result, greeted>>

\* Line 101: graph.ainvoke raises; no try/except encloses it, so the exception
\* leaves retell_webhook and the task ends without a JSONResponse.
EngineFail(r) ==
    /\ pc[r] = "awaiting"
    /\ engine[r] = "pending"
    /\ engine' = [engine EXCEPT ![r] = "raised"]
    /\ pc' = [pc EXCEPT ![r] = "failed"]
    /\ UNCHANGED <<body, calls, result, greeted, response>>

\* Concurrent requests, each its own task
Next ==
    \E r \in Requests :
        \/ \E b \in ConcBodies : Receive(r, b)
        \/ \E res \in ConcResults : EngineReturn(r, res)
        \/ EngineFail(r)

Spec == Init /\ [][Next]_vars

\* One request, every payload and every engine result
NextPayload ==
    \/ \E b \in Bodies : Receive(1, b)
    \/ \E res \in Results : EngineReturn(1, res)
    \/ EngineFail(1)

SpecPayload == Init /\ [][NextPayload]_vars

\* ------------------------------------------- what the payloads and results say
\* These read the recorded payload and engine result directly, by index sets
\* rather than by the handler's loops.

PayloadCallId(r) == IF "call_id" \in DOMAIN body[r] THEN body[r].call_id ELSE "unknown"

HasTerminalEvent(r) ==
    /\ "event" \in DOMAIN body[r]
    /\ body[r].event \in {"call_ended", "call_analyzed"}

ActiveTurn(r) == pc[r] # "idle" /\ ~HasTerminalEvent(r)

PayloadTranscript(r) == IF "transcript" \in DOMAIN body[r] THEN body[r].transcript ELSE <<>>

UserEntries(t) == {i \in DOMAIN t : "role" \in DOMAIN t[i] /\ t[i].role = "user"}

Last(S) == CHOOSE i \in S : \A j \in S : j <= i

ResultMessages(r) == IF "messages" \in DOMAIN result[r] THEN result[r].messages ELSE <<>>

AiEntries(ms) == {i \in DOMAIN ms : ms[i].type = "ai"}

LastAiContent(r) ==
    IF AiEntries(ResultMessages(r)) = {} THEN ""
    ELSE ResultMessages(r)[Last(AiEntries(ResultMessages(r)))].content

SentText(r) == calls[r][1].input_state.messages[2].content

SentKey(r) == calls[r][1].config.configurable.thread_id

IsActiveReply(m) == DOMAIN m = {"response_id", "content", "content_complete", "end_call"}

SameButEvent(r1, r2) ==
    /\ ("call_id" \in DOMAIN body[r1]) = ("call_id" \in DOMAIN body[r2])
    /\ PayloadCallId(r1) = PayloadCallId(r2)
    /\ ("transcript" \in DOMAIN body[r1]) = ("transcript" \in DOMAIN body[r2])
    /\ PayloadTranscript(r1) = PayloadTranscript(r2)

\* --------------------------------------------------------------- the claims

\* C1: a request whose event is call_ended or call_analyzed is answered with
\* the empty string as content and never invokes the engine, whatever its
\* transcript holds.
C1_TerminalShortCircuit ==
    \A r \in Requests :
        (pc[r] # "idle" /\ HasTerminalEvent(r)) =>
            /\ calls[r] = <<>>
            /\ engine[r] = "none"
            /\ pc[r] = "responded"
            /\ Cardinality(response[r]) = 1
            /\ \A m \in response[r] : m.content = ""

C1_Witness ==
    \E r \in Requests :
        /\ pc[r] = "responded"
        /\ "event" \in DOMAIN body[r] /\ body[r].event = "call_analyzed"
        /\ UserEntries(PayloadTranscript(r)) # {}
        /\ calls[r] = <<>>
        /\ \E m \in response[r] : m.content = ""

\* C2: every response, short-circuit and active-turn alike, carries as
\* response_id the payload's call_id, or "unknown" when the payload has none.
C2_ResponseIdEchoesCallId ==
    \A r \in Requests : \A m \in response[r] : m.response_id = PayloadCallId(r)

C2_Witness ==
    \E r \in Requests :
        /\ "call_id" \notin DOMAIN body[r]
        /\ engine[r] = "returned"
        /\ \E m \in response[r] : m.response_id = "unknown"

\* C3: on an active turn whose transcript has a user-role entry, the text
\* passed to the engine is the content of the last user-role entry.
C3_LastUserContentSent ==
    \A r \in Requests :
        (ActiveTurn(r) /\ UserEntries(PayloadTranscript(r)) # {}) =>
            LET last == PayloadTranscript(r)[Last(UserEntries(PayloadTranscript(r)))]
            IN  /\ Len(calls[r]) = 1
                /\ "content" \in DOMAIN last => SentText(r) = last.content

\* C4: on an active turn without any user-role entry the engine receives
\* "Hola", and the greeting is substituted only when no user-role entry exists.
C4_GreetingOnlyWithoutUserEntry ==
    \A r \in Requests :
        ActiveTurn(r) =>
            /\ UserEntries(PayloadTranscript(r)) = {} => (greeted[r] /\ SentText(r) = "Hola")
            /\ greeted[r] => UserEntries(PayloadTranscript(r)) = {}

\* C5: when the engine invocation returns, the response content is the content
\* of the last "ai" message of the returned sequence, or the empty string when
\* there is none, with content_complete true and end_call false.
C5_ReplyIsLastAiMessage ==
    \A r \in Requests :
        engine[r] = "returned" =>
            /\ Cardinality(response[r]) = 1
            /\ \A m \in response[r] :
                /\ IsActiveReply(m)
                /\ m.content = LastAiContent(r)
                /\ m.content_complete = TRUE
                /\ m.end_call = FALSE

C5_Witness ==
    \E r \in Requests :
        /\ engine[r] = "returned"
        /\ Cardinality(AiEntries(ResultMessages(r))) = 2
        /\ ResultMessages(r)[1].content # ResultMessages(r)[2].content
        /\ \E m \in response[r] : m.content = ResultMessages(r)[2].content

\* C6: when the engine invocation fails the request ends as a server error:
\* the engine was invoked once and is not invoked again, and no dispatch
\* result is returned.
C6_FailureIsUnhandled ==
    \A r \in Requests :
        engine[r] = "raised" =>
            /\ pc[r] = "failed"
            /\ Len(calls[r]) = 1
            /\ response[r] = {}

C6_Witness ==
    \E r \in Requests : engine[r] = "raised" /\ pc[r] = "failed" /\ response[r] = {}

\* C7 as stated: a failed engine invocation yields a response whose content is
\* the empty string, as an empty agent reply does.
C7_FailureYieldsEmptyContent ==
    \A r \in Requests :
        engine[r] = "raised" => \E m \in response[r] : m.content = ""

\* C7 as amended: an empty agent reply yields a dispatch result whose content
\* is the empty string, a failed engine invocation yields no dispatch result,
\* so the two outcomes never look alike to the caller.
C7_FailureDiffersFromEmptyReply ==
    \A r1, r2 \in Requests :
        (engine[r1] = "raised" /\ engine[r2] = "returned" /\ LastAiContent(r2) = "") =>
            /\ \E m \in response[r2] : m.content = ""
            /\ response[r1] = {}
            /\ response[r1] # response[r2]

C7_Witness ==
    \E r1, r2 \in Requests :
        /\ engine[r1] = "raised"
        /\ engine[r2] = "returned"
        /\ PayloadCallId(r1) = PayloadCallId(r2)
        /\ \E m \in response[r2] : m.content = ""

\* C8: two requests that differ only in an event value other than call_ended
\* and call_analyzed (absent and empty included) make the same engine
\* invocation, and given the same engine result return the same response.
C8_ActiveEventsAlike ==
    \A r1, r2 \in Requests :
        (ActiveTurn(r1) /\ ActiveTurn(r2) /\ SameButEvent(r1, r2)) =>
            /\ Len(calls[r1]) = 1
            /\ calls[r1] = calls[r2]
            /\ (engine[r1] = "returned" /\ engine[r2] = "returned" /\ result[r1] = result[r2])
                  => response[r1] = response[r2]

C8_Witness ==
    \E r1, r2 \in Requests :
        /\ SameButEvent(r1, r2)
        /\ "event" \notin DOMAIN body[r1]
        /\ "event" \in DOMAIN body[r2] /\ body[r2].event = "call_started"
        /\ "transcript" \in DOMAIN body[r1]
        /\ engine[r1] = "returned" /\ engine[r2] = "returned"
        /\ result[r1] = result[r2]
        /\ response[r1] = response[r2]
        /\ \E m \in response[r1] : m.content = "r1"

\* C9: an active-turn request invokes the engine exactly once, with its own
\* call_id as session key, and returns its response only once that invocation
\* has completed: nothing is returned while the invocation is pending.
C9_InvokedOnceThenReplied ==
    \A r \in Requests :
        ActiveTurn(r) =>
            /\ Len(calls[r]) = 1
            /\ SentKey(r) = PayloadCallId(r)
            /\ engine[r] # "none"
            /\ engine[r] = "pending" => response[r] = {}
            /\ response[r] # {} => (engine[r] = "returned" /\ Cardinality(response[r]) = 1)

C9_Witness ==
    \E r1, r2 \in Requests :
        /\ "call_id" \in DOMAIN body[r1]
        /\ engine[r1] = "pending" /\ response[r1] = {}
        /\ engine[r2] = "returned" /\ response[r2] # {}

\* C10: requests are not serialised and share nothing: whatever the
\* interleaving, a request's response is fixed by its own payload and by the
\* engine result returned to it.
C10_ResponseFromOwnData ==
    \A r \in Requests :
        /\ Cardinality(response[r]) <= 1
        /\ \A m \in response[r] :
            /\ m.response_id = PayloadCallId(r)
            /\ IF HasTerminalEvent(r)
               THEN DOMAIN m = {"response_id", "content"} /\ m.content = ""
               ELSE /\ IsActiveReply(m)
                    /\ m.content = LastAiContent(r)
                    /\ m.content_complete = TRUE
                    /\ m.end_call = FALSE

\* Two requests of the same call are both awaiting the engine.
C10_Witness ==
    \E r1, r2 \in Requests :
        /\ r1 # r2
        /\ pc[r1] = "awaiting" /\ engine[r1] = "pending"
        /\ pc[r2] = "awaiting" /\ engine[r2] = "pending"
        /\ "call_id" \in DOMAIN body[r1] /\ "call_id" \in DOMAIN body[r2]
        /\ body[r1].call_id = body[r2].call_id
        /\ SentKey(r1) = SentKey(r2)
        /\ SentText(r1) # SentText(r2)

====
